---- MODULE Spec2Model ----
(***************************************************************************)
(* A model of the PerfMon log analysis engine (perfmon_analyzer/analyzer.py)*)
(* and of the way app.py uses it.                                           *)
(*                                                                         *)
(* Text is modelled as a sequence of one-character strings, so that split, *)
(* strip, lower and the substring test are computed character by character *)
(* as Python computes them.  A float is a record [k, n, d]: k = "fin" is   *)
(* the rational n/d in lowest terms, k = "inf" / "ninf" / "nan" are the    *)
(* IEEE specials.  Finite arithmetic is exact (no rounding is modelled);   *)
(* the specials combine and compare as IEEE 754 does.                      *)
(***************************************************************************)
EXTENDS Integers, Sequences, FiniteSets, TLC

VARIABLES
    \* --- the engine (PerfmonAnalyzer) and its environment
    fileExists,          \* csv_path.exists()
    fileTable,           \* what pd.read_csv(csv_path) yields right now
    _dataframe,          \* self._dataframe
    _numeric_dataframe,  \* self._numeric_dataframe
    _metric_stats,       \* self._metric_stats
    _category_stats,     \* self._category_stats
    lastCall,            \* the last engine call made and how it ended
    installed,           \* history: the table read by the last load() that returned
    \* --- the classifiers applied to one name (pure functions)
    category_keywords,   \* self.category_keywords
    metric_name,         \* the argument
    classified,          \* the value returned, None before the call returns
    \* --- concurrent callers of one engine
    heap,                \* the list and dict objects built by calls, by identity
    pc,                  \* each caller's position in its call
    frame,               \* each caller's local variables
    calls,               \* how many calls each caller has started
    loader               \* position and locals of the thread running load()

engineVars == <<fileExists, fileTable, _dataframe, _numeric_dataframe,
                _metric_stats, _category_stats, lastCall, installed>>
classifierVars == <<category_keywords, metric_name, classified>>
threadVars == <<heap, pc, frame, calls, loader>>
vars == <<engineVars, classifierVars, threadVars>>

\* Python's None in a slot, and a slot that holds x
None == <<>>
Some(x) == <<x>>

-----------------------------------------------------------------------------
(* Bounds of the model *)

\* longest metric name handed to the classifiers
MaxNameLen == 5
\* most data cells (rows times data columns) of a generated table
MaxCells == 4
\* most calls the threads of a concurrent run make, all together
MaxCalls == 3

-----------------------------------------------------------------------------
(* Text: str operations of Python, on sequences of characters *)

\* The characters the model uses, in code point order (U+0020 .. U+007A).
CodePoints ==
    <<" ", "%", "(", ")", ".",
      "A", "B", "C", "D", "E", "F", "G", "H", "I", "J", "K", "L", "M",
      "N", "O", "P", "Q", "R", "S", "T", "U", "V", "W", "X", "Y", "Z",
      "\\", "_",
      "a", "b", "c", "d", "e", "f", "g", "h", "i", "j", "k", "l", "m",
      "n", "o", "p", "q", "r", "s", "t", "u", "v", "w", "x", "y", "z">>

UpperCase == <<"A", "B", "C", "D", "E", "F", "G", "H", "I", "J", "K", "L", "M",
               "N", "O", "P", "Q", "R", "S", "T", "U", "V", "W", "X", "Y", "Z">>
LowerCase == <<"a", "b", "c", "d", "e", "f", "g", "h", "i", "j", "k", "l", "m",
               "n", "o", "p", "q", "r", "s", "t", "u", "v", "w", "x", "y", "z">>

Ord(c) == CHOOSE i \in 1..Len(CodePoints) : CodePoints[i] = c

\* str.lower() of one character
LowerChar(c) ==
    IF \E i \in 1..Len(UpperCase) : UpperCase[i] = c
    THEN LowerCase[CHOOSE i \in 1..Len(UpperCase) : UpperCase[i] = c]
    ELSE c

\* str.lower()
Lower(s) == [i \in 1..Len(s) |-> LowerChar(s[i])]

IsSpace(c) == c = " "

\* str.strip(): leading and trailing whitespace removed
Strip(s) ==
    LET keep == {i \in 1..Len(s) : ~IsSpace(s[i])}
    IN  IF keep = {} THEN <<>>
        ELSE LET lo == CHOOSE i \in keep : \A j \in keep : i <= j
                 hi == CHOOSE i \in keep : \A j \in keep : j <= i
             IN  SubSeq(s, lo, hi)

\* str.split(sep) for a one-character separator: every occurrence splits, and
\* adjacent separators (or one at either end) yield empty pieces.
RECURSIVE Split(_, _)
Split(s, sep) ==
    LET at == {i \in 1..Len(s) : s[i] = sep}
    IN  IF at = {} THEN <<s>>
        ELSE LET i == CHOOSE k \in at : \A j \in at : k <= j
             IN  <<SubSeq(s, 1, i - 1)>> \o Split(SubSeq(s, i + 1, Len(s)), sep)

\* Python's `kw in s` for strings
Contains(s, kw) ==
    \E i \in 0..(Len(s) - Len(kw)) : SubSeq(s, i + 1, i + Len(kw)) = kw

\* Python's `a < b` for strings: lexicographic by code point
StrLess(a, b) ==
    \E i \in 1..(Len(b)) :
        /\ i <= Len(a) + 1
        /\ \A j \in 1..(i - 1) : a[j] = b[j]
        /\ IF i = Len(a) + 1 THEN TRUE ELSE Ord(a[i]) < Ord(b[i])

\* the elements of a sequence that satisfy a test, in order
RECURSIVE SelectNonEmpty(_)
SelectNonEmpty(parts) ==
    IF parts = <<>> THEN <<>>
    ELSE (IF Head(parts) # <<>> THEN <<Head(parts)>> ELSE <<>>)
         \o SelectNonEmpty(Tail(parts))

\* all character sequences over an alphabet, up to a length
StringsUpTo(alphabet, n) == UNION {[1..k -> alphabet] : k \in 0..n}

-----------------------------------------------------------------------------
(* The keyword classifier *)

\* DEFAULT_CATEGORY_KEYWORDS, a dict: its items in insertion order
DEFAULT_CATEGORY_KEYWORDS ==
    << [category |-> <<"C","P","U">>,
        keywords |-> << <<"c","p","u">>,
                        <<"p","r","o","c","e","s","s","o","r">>,
                        <<"%"," ","p","r","o","c","e","s","s","o","r">>,
                        <<"t","o","t","a","l"," ","p","r","o","c","e","s","s","o","r">> >>],
       [category |-> <<"G","P","U">>,
        keywords |-> << <<"g","p","u">>,
                        <<"n","v","i","d","i","a">>,
                        <<"g","r","a","p","h","i","c","s">> >>],
       [category |-> <<"M","e","m","o","r","y">>,
        keywords |-> << <<"m","e","m","o","r","y">>,
                        <<"c","o","m","m","i","t">>,
                        <<"p","a","g","e","f","i","l","e">>,
                        <<"p","o","o","l">> >>],
       [category |-> <<"D","i","s","k">>,
        keywords |-> << <<"d","i","s","k">>,
                        <<"s","t","o","r","a","g","e">>,
                        <<"i","o">> >>],
       [category |-> <<"N","e","t","w","o","r","k">>,
        keywords |-> << <<"n","e","t","w","o","r","k">>,
                        <<"n","e","t">>,
                        <<"e","t","h","e","r","n","e","t">>,
                        <<"t","h","r","o","u","g","h","p","u","t">> >>] >>

Other == <<"O","t","h","e","r">>

\* any(keyword in metric_lower for keyword in keywords)
AnyKeyword(keywords, metric_lower) ==
    \E k \in 1..Len(keywords) : Contains(metric_lower, keywords[k])

\* line 110
MetricLower(name) == Lower(name)

\* the loop of _match_category over the items from position i on
RECURSIVE MatchFrom(_, _, _)
MatchFrom(items, i, metric_lower) ==
    IF i > Len(items) THEN Other
    ELSE IF AnyKeyword(items[i].keywords, metric_lower) THEN items[i].category
    ELSE MatchFrom(items, i + 1, metric_lower)

\* a mutant of the loop: it keeps looking, so the last match wins
RECURSIVE MatchLastFrom(_, _, _)
MatchLastFrom(items, i, metric_lower) ==
    IF i > Len(items) THEN Other
    ELSE LET rest == MatchLastFrom(items, i + 1, metric_lower)
         IN  IF rest # Other THEN rest
             ELSE IF AnyKeyword(items[i].keywords, metric_lower)
                  THEN items[i].category ELSE Other

MatchCategoryLastWins(keywords, name) == MatchLastFrom(keywords, 1, MetricLower(name))
_match_category(keywords, name) == MatchFrom(keywords, 1, MetricLower(name))

-----------------------------------------------------------------------------
(* The hierarchical path classifier *)

BackSlash == "\\"

\* line 119: [part.strip() for part in metric_name.split("\\") if part]
\* The filter `if part` sees the piece before strip() is applied to it.
PathParts(name) ==
    LET kept == SelectNonEmpty(Split(name, BackSlash))
    IN  [i \in 1..Len(kept) |-> Strip(kept[i])]

\* line 131: category_part.split("(")[0].strip() or category_part
NormalizeCategory(category_part) ==
    LET cut == Strip(Split(category_part, "(")[1])
    IN  IF cut # <<>> THEN cut ELSE category_part

_split_perfmon_path(keywords, name) ==
    LET parts == PathParts(name)
        n == Len(parts)
        category_part == IF n >= 3 THEN parts[n - 1]
                         ELSE IF n = 2 THEN parts[1]
                         ELSE name
        counter == IF n >= 3 THEN parts[n]
                   ELSE IF n = 2 THEN parts[2]
                   ELSE name
        normalized_category == NormalizeCategory(category_part)
    IN  [category |-> IF normalized_category = name
                      THEN _match_category(keywords, name)
                      ELSE normalized_category,
         counter |-> counter]

-----------------------------------------------------------------------------
(* Floats *)

RECURSIVE Gcd(_, _)
Gcd(a, b) == IF b = 0 THEN a ELSE Gcd(b, a % b)

Abs(x) == IF x < 0 THEN -x ELSE x

\* the finite float n/d (d > 0), in lowest terms
Fin(n, d) ==
    LET g == Gcd(Abs(n), d)
    IN  [k |-> "fin", n |-> n \div g, d |-> d \div g]

PosInf == [k |-> "inf", n |-> 0, d |-> 1]
NegInf == [k |-> "ninf", n |-> 0, d |-> 1]
NaN == [k |-> "nan", n |-> 0, d |-> 1]

\* IEEE a < b: false when either is NaN
FLt(a, b) ==
    /\ a.k # "nan" /\ b.k # "nan"
    /\ \/ a.k = "ninf" /\ b.k # "ninf"
       \/ a.k # "inf" /\ b.k = "inf"
       \/ a.k = "fin" /\ b.k = "fin" /\ a.n * b.d < b.n * a.d

\* IEEE a <= b: false when either is NaN
FLe(a, b) ==
    /\ a.k # "nan" /\ b.k # "nan"
    /\ (FLt(a, b) \/ a = b)

\* IEEE a + b
FAdd(a, b) ==
    IF a.k = "nan" \/ b.k = "nan" THEN NaN
    ELSE IF a.k = "fin" /\ b.k = "fin" THEN Fin(a.n * b.d + b.n * a.d, a.d * b.d)
    ELSE IF a.k = "fin" THEN b
    ELSE IF b.k = "fin" THEN a
    ELSE IF a.k = b.k THEN a
    ELSE NaN

\* IEEE a / count, for an integer count > 0
FDiv(a, count) == IF a.k = "fin" THEN Fin(a.n, a.d * count) ELSE a

\* sum(xs), which starts from 0 and adds from the left
RECURSIVE FSum(_)
FSum(xs) ==
    IF xs = <<>> THEN Fin(0, 1)
    ELSE FAdd(FSum(SubSeq(xs, 1, Len(xs) - 1)), xs[Len(xs)])

\* min(xs): the first element, replaced by each later one that is < it
RECURSIVE FMin(_)
FMin(xs) ==
    IF Len(xs) = 1 THEN xs[1]
    ELSE LET m == FMin(SubSeq(xs, 1, Len(xs) - 1))
         IN  IF FLt(xs[Len(xs)], m) THEN xs[Len(xs)] ELSE m

\* max(xs): the first element, replaced by each later one that is > it
RECURSIVE FMax(_)
FMax(xs) ==
    IF Len(xs) = 1 THEN xs[1]
    ELSE LET m == FMax(SubSeq(xs, 1, Len(xs) - 1))
         IN  IF FLt(m, xs[Len(xs)]) THEN xs[Len(xs)] ELSE m

\* Series.mean() of a series without NaN: the sum over the count
FMean(xs) == FDiv(FSum(xs), Len(xs))

-----------------------------------------------------------------------------
(* Tables: what read_csv yields, and its coercion to numbers *)

\* The text of a cell.  "1" and "3" parse to numbers, "inf" and "-inf" to the
\* infinities (read_csv and to_numeric both accept them), "x" does not parse.
CellTexts == {"1", "3", "inf", "-inf", "x"}

\* pd.to_numeric(cell, errors="coerce")
ToNumeric(text) ==
    CASE text = "1" -> Fin(1, 1)
      [] text = "3" -> Fin(3, 1)
      [] text = "inf" -> PosInf
      [] text = "-inf" -> NegInf
      [] OTHER -> NaN

Timestamp == <<"T","i","m","e","s","t","a","m","p">>

\* the cell of the first column in every row
TimeCell == "t"

\* column names of the generated tables
NameGa == <<BackSlash, "G", BackSlash, "a">>
NameGB == <<BackSlash, "G", BackSlash, "B">>
NameIo == <<"i", "o">>
NameTime == <<"T">>

\* header rows: the first name is the first column's, whatever its text
Headers ==
    { <<NameTime>>,
      <<NameTime, NameGa>>,
      <<NameTime, NameIo>>,
      <<NameTime, NameGa, NameGB>>,
      <<NameTime, NameGB, NameGa>>,
      <<NameTime, NameIo, NameGa>>,
      <<NameTime, NameGa, Timestamp>> }

\* the data rows a header admits: the first cell, then one text per column
RowsOf(header) ==
    {<<TimeCell>> \o cells : cells \in [1..(Len(header) - 1) -> CellTexts]}

\* every table with a header among hs, at most n data rows and at most
\* cells data cells
TablesOver(hs, n, cells) ==
    UNION { UNION { {[columns |-> h, rows |-> rs] : rs \in [1..r -> RowsOf(h)]}
                    : r \in {q \in 0..n : q * (Len(h) - 1) <= cells} }
            : h \in hs }

\* positions of a sequence that satisfy nothing but being kept, in order
RECURSIVE KeepIndices(_, _)
KeepIndices(n, keep) ==
    IF n = 0 THEN <<>>
    ELSE KeepIndices(n - 1, keep) \o (IF n \in keep THEN <<n>> ELSE <<>>)

\* lines 63-64: df.rename(columns={df.columns[0]: "Timestamp"})
RenameFirst(df) ==
    [df EXCEPT !.columns = [i \in 1..Len(df.columns) |->
                              IF df.columns[i] = df.columns[1] THEN Timestamp
                              ELSE df.columns[i]]]

\* line 67: df.drop(columns=["Timestamp"], errors="ignore")
\*              .apply(pd.to_numeric, errors="coerce")
\* Every column labelled "Timestamp" is dropped; the frame is kept by column.
NumericFrame(df) ==
    LET kept == KeepIndices(Len(df.columns),
                            {i \in 1..Len(df.columns) : df.columns[i] # Timestamp})
    IN  [columns |-> [j \in 1..Len(kept) |-> df.columns[kept[j]]],
         series |-> [j \in 1..Len(kept) |->
                       [r \in 1..Len(df.rows) |-> ToNumeric(df.rows[r][kept[j]])]]]

-----------------------------------------------------------------------------
(* metric_stats: the computation of lines 90-105 *)

\* Series.dropna()
RECURSIVE DropNa(_)
DropNa(series) ==
    IF series = <<>> THEN <<>>
    ELSE (IF Head(series).k = "nan" THEN <<>> ELSE <<Head(series)>>)
         \o DropNa(Tail(series))

\* lines 94-95 skip a column that is empty after dropna(); a mutant forgets to
SkipNothing(series) == FALSE
SkipColumn(series) == series = <<>>

\* lines 97-102
MetricStat(column, series) ==
    IF series = <<>> THEN [name |-> column, min |-> NaN, max |-> NaN, avg |-> NaN]
    ELSE [name |-> column, min |-> FMin(series), max |-> FMax(series),
          avg |-> FMean(series)]

\* the loop of lines 92-103 over the first n columns
RECURSIVE CollectStats(_, _)
CollectStats(numeric_df, n) ==
    IF n = 0 THEN <<>>
    ELSE LET series == DropNa(numeric_df.series[n])
         IN  CollectStats(numeric_df, n - 1)
             \o (IF SkipColumn(series) THEN <<>>
                 ELSE <<MetricStat(numeric_df.columns[n], series)>>)

\* list.sort(key=...): stable, ascending by `<` on the keys.  The list is
\* given as its [key, item] pairs.
RECURSIVE InsertSorted(_, _)
InsertSorted(sorted, x) ==
    IF sorted = <<>> THEN <<x>>
    ELSE IF StrLess(x.key, sorted[Len(sorted)].key)
         THEN InsertSorted(SubSeq(sorted, 1, Len(sorted) - 1), x)
              \o <<sorted[Len(sorted)]>>
         ELSE sorted \o <<x>>

RECURSIVE SortPairs(_)
SortPairs(xs) ==
    IF xs = <<>> THEN <<>>
    ELSE InsertSorted(SortPairs(SubSeq(xs, 1, Len(xs) - 1)), xs[Len(xs)])

Items(pairs) == [i \in 1..Len(pairs) |-> pairs[i].item]

StatName(stat) == stat.name
StatNameLower(stat) == Lower(stat.name)

\* line 105: stats.sort(key=lambda stat: stat.name); a mutant sorts without
\* regard to case
SortStatsIgnoringCase(stats) ==
    Items(SortPairs([i \in 1..Len(stats) |->
                       [key |-> StatNameLower(stats[i]), item |-> stats[i]]]))
SortStats(stats) ==
    Items(SortPairs([i \in 1..Len(stats) |->
                       [key |-> StatName(stats[i]), item |-> stats[i]]]))

ComputeMetricStats(numeric_df) ==
    SortStats(CollectStats(numeric_df, Len(numeric_df.columns)))

-----------------------------------------------------------------------------
(* category_stats: the computation of lines 140-159 *)

\* lines 145-151
Member(counter, stat) ==
    [name |-> counter, full_name |-> stat.name,
     min |-> stat.min, max |-> stat.max, avg |-> stat.avg]

\* lines 142-152 for one stat: setdefault, then append.  The dict is the
\* sequence of its items in insertion order.
AddMember(buckets, keywords, stat) ==
    LET split == _split_perfmon_path(keywords, stat.name)
        member == Member(split.counter, stat)
    IN  IF \E i \in 1..Len(buckets) : buckets[i].category = split.category
        THEN [i \in 1..Len(buckets) |->
                IF buckets[i].category = split.category
                THEN [buckets[i] EXCEPT !.metrics = @ \o <<member>>]
                ELSE buckets[i]]
        ELSE buckets \o <<[category |-> split.category, metrics |-> <<member>>]>>

\* the loop of lines 141-152 over the first n stats
RECURSIVE GroupStats(_, _, _)
GroupStats(stats, keywords, n) ==
    IF n = 0 THEN <<>>
    ELSE AddMember(GroupStats(stats, keywords, n - 1), keywords, stats[n])

MemberKey(entry) == Lower(entry.name)

MinOf(metrics) == FMin([i \in 1..Len(metrics) |-> metrics[i].min])
MaxOf(metrics) == FMax([i \in 1..Len(metrics) |-> metrics[i].max])

\* line 159: the sum of the members' averages over their number; a mutant
\* takes the middle of the bucket's range instead
MidRange(metrics) == FDiv(FAdd(MinOf(metrics), MaxOf(metrics)), 2)
AvgOf(metrics) == FDiv(FSum([i \in 1..Len(metrics) |-> metrics[i].avg]), Len(metrics))

\* lines 155-159 for one bucket
FinishBucket(bucket) ==
    LET metrics == Items(SortPairs([i \in 1..Len(bucket.metrics) |->
                                      [key |-> MemberKey(bucket.metrics[i]),
                                       item |-> bucket.metrics[i]]]))
    IN  [category |-> bucket.category, metrics |-> metrics,
         min |-> MinOf(metrics), max |-> MaxOf(metrics), avg |-> AvgOf(metrics)]

ComputeCategoryStats(stats, keywords) ==
    LET grouped == GroupStats(stats, keywords, Len(stats))
    IN  [i \in 1..Len(grouped) |-> FinishBucket(grouped[i])]

-----------------------------------------------------------------------------
(* The engine: load(), the numeric_dataframe property, metric_stats() and   *)
(* category_stats() as functions of the engine's four slots and of the file *)

FileNotFoundError == "FileNotFoundError"
ValueError == "ValueError"

\* a call's outcome: the engine it leaves, the exception raised (None: it
\* returned), the value returned, and the table a load() inside it installed
Outcome(e, exc, ret, read) == [e |-> e, exc |-> exc, ret |-> ret, read |-> read]

\* the engine when load() raises at line 57 or 61: nothing was assigned yet.
\* A mutant invalidates the caches before it checks the file.
RaisedAfterInvalidate(e) == [e EXCEPT !.ms = None, !.cs = None]
RaisedIn(e) == e

\* lines 63-70: the four assignments of a load() that returns.  A mutant
\* forgets line 70.
AssignedForgettingCategories(e, df) ==
    [df |-> Some(RenameFirst(df)), ndf |-> Some(NumericFrame(RenameFirst(df))),
     ms |-> None, cs |-> e.cs]
Assigned(e, df) ==
    [df |-> Some(RenameFirst(df)), ndf |-> Some(NumericFrame(RenameFirst(df))),
     ms |-> None, cs |-> None]

\* load(), lines 53-70
Load(e, exists, table) ==
    IF ~exists THEN Outcome(RaisedIn(e), Some(FileNotFoundError), None, None)
    ELSE IF table.rows = <<>> THEN Outcome(RaisedIn(e), Some(ValueError), None, None)
    ELSE Outcome(Assigned(e, table), None, None, Some(table))

\* lines 82-84: the property after the load() it started
NumericDataframeAfter(l) ==
    IF l.exc # None THEN l ELSE Outcome(l.e, None, l.e.ndf, l.read)

\* the numeric_dataframe property, lines 79-84
NumericDataframe(e, exists, table) ==
    IF e.ndf = None THEN NumericDataframeAfter(Load(e, exists, table))
    ELSE Outcome(e, None, e.ndf, None)

\* lines 106-107
StoreMetricStats(n, stats) ==
    Outcome([n.e EXCEPT !.ms = Some(stats)], None, Some(stats), n.read)

\* lines 90-107, given the outcome of reading the property at line 91
MetricStatsFrom(n) ==
    IF n.exc # None THEN n ELSE StoreMetricStats(n, ComputeMetricStats(n.ret[1]))

\* metric_stats(), lines 86-107
MetricStats(e, exists, table) ==
    IF e.ms # None THEN Outcome(e, None, e.ms, None)
    ELSE MetricStatsFrom(NumericDataframe(e, exists, table))

\* lines 161-162
StoreCategoryStats(m, buckets) ==
    Outcome([m.e EXCEPT !.cs = Some(buckets)], None, Some(buckets), m.read)

\* lines 140-162, given the outcome of metric_stats() at line 141
CategoryStatsFrom(m, keywords) ==
    IF m.exc # None THEN m
    ELSE StoreCategoryStats(m, ComputeCategoryStats(m.ret[1], keywords))

\* category_stats(), lines 136-162
CategoryStats(e, keywords, exists, table) ==
    IF e.cs # None THEN Outcome(e, None, e.cs, None)
    ELSE CategoryStatsFrom(MetricStats(e, exists, table), keywords)

-----------------------------------------------------------------------------
(* One engine used by one caller: every call is a step *)

Engine == [df |-> _dataframe, ndf |-> _numeric_dataframe,
           ms |-> _metric_stats, cs |-> _category_stats]

\* the record of a call in lastCall
Called(op, out) == Some([op |-> op, exc |-> out.exc, ret |-> out.ret])

\* the table installed by the last load() that returned, after a call
Installed(out) == IF out.read # None THEN out.read ELSE installed

load ==
    \E out \in {Load(Engine, fileExists, fileTable)} :
        /\ _dataframe' = out.e.df
        /\ _numeric_dataframe' = out.e.ndf
        /\ _metric_stats' = out.e.ms
        /\ _category_stats' = out.e.cs
        /\ lastCall' = Called("load", out)
        /\ installed' = Installed(out)
        /\ UNCHANGED <<fileExists, fileTable, classifierVars, threadVars>>

metric_stats ==
    \E out \in {MetricStats(Engine, fileExists, fileTable)} :
        /\ _dataframe' = out.e.df
        /\ _numeric_dataframe' = out.e.ndf
        /\ _metric_stats' = out.e.ms
        /\ _category_stats' = out.e.cs
        /\ lastCall' = Called("metric_stats", out)
        /\ installed' = Installed(out)
        /\ UNCHANGED <<fileExists, fileTable, classifierVars, threadVars>>

category_stats ==
    \E out \in {CategoryStats(Engine, category_keywords, fileExists, fileTable)} :
        /\ _dataframe' = out.e.df
        /\ _numeric_dataframe' = out.e.ndf
        /\ _metric_stats' = out.e.ms
        /\ _category_stats' = out.e.cs
        /\ lastCall' = Called("category_stats", out)
        /\ installed' = Installed(out)
        /\ UNCHANGED <<fileExists, fileTable, classifierVars, threadVars>>

\* most data rows of a table in the runs that rewrite the file
MaxRowsRewritten == 1

RewrittenHeaders == { <<NameTime>>, <<NameTime, NameGa>> }

\* the file is written, rewritten or removed between two calls
ChangeSource ==
    /\ \/ fileExists' = FALSE /\ fileTable' = None
       \/ /\ fileExists' = TRUE
          /\ fileTable' \in TablesOver(RewrittenHeaders, MaxRowsRewritten, MaxRowsRewritten)
    /\ <<fileExists', fileTable'>> # <<fileExists, fileTable>>
    /\ UNCHANGED <<_dataframe, _numeric_dataframe, _metric_stats, _category_stats,
                   lastCall, installed, classifierVars, threadVars>>

EngineNew ==
    /\ _dataframe = None
    /\ _numeric_dataframe = None
    /\ _metric_stats = None
    /\ _category_stats = None
    /\ lastCall = None
    /\ installed = None
    /\ category_keywords = DEFAULT_CATEGORY_KEYWORDS
    /\ metric_name = <<>>
    /\ classified = None

ThreadsUnused ==
    /\ heap = <<>>
    /\ pc = <<>>
    /\ frame = <<>>
    /\ calls = <<>>
    /\ loader = None

\* a new engine (lines 48-51) on a file that may be missing, rewritten later
Init ==
    /\ EngineNew
    /\ ThreadsUnused
    /\ fileExists = FALSE
    /\ fileTable = None

Next == ChangeSource \/ load \/ metric_stats \/ category_stats

Spec == Init /\ [][Next]_vars

\* a new engine on any one table, which stays as it is
InitTable ==
    /\ EngineNew
    /\ ThreadsUnused
    /\ fileExists = TRUE
    /\ fileTable \in TablesOver(Headers, MaxCells, MaxCells)

NextTable == load \/ metric_stats \/ category_stats

SpecTable == InitTable /\ [][NextTable]_vars

-----------------------------------------------------------------------------
(* C1 *)

Slots == <<_dataframe, _numeric_dataframe, _metric_stats, _category_stats>>

\* C1: load() on a missing file raises FileNotFoundError and on a file with no
\* data rows raises ValueError, and a call that raises (load() itself, or the
\* load() a read starts) leaves all four slots as they were.
C1_FailedLoadKeepsState ==
    [][lastCall' # lastCall =>
         /\ (lastCall'[1].op = "load" /\ ~fileExists)
               => lastCall'[1].exc = Some(FileNotFoundError)
         /\ (lastCall'[1].op = "load" /\ fileExists /\ fileTable.rows = <<>>)
               => lastCall'[1].exc = Some(ValueError)
         /\ lastCall'[1].exc # None => Slots' = Slots]_vars

\* load() has just raised ValueError on an engine that holds a table and both
\* caches, and it still holds them
C1_Witness ==
    /\ lastCall # None
    /\ lastCall[1].op = "load"
    /\ lastCall[1].exc = Some(ValueError)
    /\ _dataframe # None /\ _numeric_dataframe # None
    /\ _metric_stats # None /\ _category_stats # None

-----------------------------------------------------------------------------
(* C2 *)

\* the statistics of the table the last load() that returned has read
StatsOfInstalled == ComputeMetricStats(NumericFrame(RenameFirst(installed[1])))
BucketsOfInstalled == ComputeCategoryStats(StatsOfInstalled, category_keywords)

\* C2: each cache, when filled, holds the statistics of the table installed by
\* the last load() that returned, and a read that returns, from the cache or
\* freshly computed, returns exactly those.
C2_ReadsFollowLastLoad ==
    /\ _metric_stats # None =>
          installed # None /\ _metric_stats[1] = StatsOfInstalled
    /\ _category_stats # None =>
          installed # None /\ _category_stats[1] = BucketsOfInstalled
    /\ (lastCall # None /\ lastCall[1].exc = None) =>
          /\ lastCall[1].op = "metric_stats" =>
                installed # None /\ lastCall[1].ret = Some(StatsOfInstalled)
          /\ lastCall[1].op = "category_stats" =>
                installed # None /\ lastCall[1].ret = Some(BucketsOfInstalled)

\* metric_stats() has returned a non-empty list from a warm cache while the
\* file no longer is the table that was loaded
C2_Witness ==
    /\ lastCall # None
    /\ lastCall[1].op = "metric_stats"
    /\ lastCall[1].exc = None
    /\ lastCall[1].ret # Some(<<>>)
    /\ _category_stats # None
    /\ fileExists /\ fileTable.rows # <<>> /\ fileTable # installed[1]

-----------------------------------------------------------------------------
(* C3 *)

\* the columns of the loaded table other than those labelled Timestamp
DataColumns ==
    {i \in 1..Len(_dataframe[1].columns) : _dataframe[1].columns[i] # Timestamp}

\* every cell of column i of the loaded table is missing after coercion
AllMissing(i) ==
    \A r \in 1..Len(_dataframe[1].rows) : ToNumeric(_dataframe[1].rows[r][i]) = NaN

\* C3: a column none of whose cells is a number has no MetricStat and is the
\* full_name of no member of any bucket; every other data column has exactly
\* one MetricStat.
C3_UnusableColumnsOmitted ==
    /\ _metric_stats # None =>
         \A i \in DataColumns :
            LET named == {j \in 1..Len(_metric_stats[1]) :
                            _metric_stats[1][j].name = _dataframe[1].columns[i]}
            IN  IF AllMissing(i) THEN named = {} ELSE Cardinality(named) = 1
    /\ _category_stats # None =>
         \A i \in DataColumns :
            AllMissing(i) =>
               \A b \in 1..Len(_category_stats[1]) :
                  \A m \in 1..Len(_category_stats[1][b].metrics) :
                     _category_stats[1][b].metrics[m].full_name
                        # _dataframe[1].columns[i]

\* both summaries are computed for a table with a column of numbers beside a
\* column without any
C3_Witness ==
    /\ _metric_stats # None /\ _category_stats # None
    /\ Len(_dataframe[1].rows) >= 2
    /\ \E i \in DataColumns : AllMissing(i)
    /\ \E i \in DataColumns : ~AllMissing(i)
    /\ Len(_metric_stats[1]) = 1

-----------------------------------------------------------------------------
(* C4 *)

\* the least and the greatest of a set of floats none of which is NaN
LeastOf(S) == CHOOSE m \in S : \A x \in S : FLe(m, x)
GreatestOf(S) == CHOOSE m \in S : \A x \in S : FLe(x, m)

\* C4: a bucket's min is the least of its members' min, its max the greatest
\* of their max, its avg the sum of their avg over their number; a bucket of
\* one member has that member's statistics.
C4_BucketStatistics ==
    _category_stats # None =>
       \A b \in 1..Len(_category_stats[1]) :
          LET bucket == _category_stats[1][b]
              members == bucket.metrics
              n == Len(members)
          IN  /\ n >= 1
              /\ bucket.min = LeastOf({members[i].min : i \in 1..n})
              /\ bucket.max = GreatestOf({members[i].max : i \in 1..n})
              /\ bucket.avg = FDiv(FSum([i \in 1..n |-> members[i].avg]), n)
              /\ n = 1 => /\ bucket.min = members[1].min
                          /\ bucket.max = members[1].max
                          /\ bucket.avg = members[1].avg

\* a bucket of two members whose ranges and averages differ, and whose
\* average is not the middle of its range
C4_Witness ==
    /\ _category_stats # None
    /\ \E b \in 1..Len(_category_stats[1]) :
          LET bucket == _category_stats[1][b]
          IN  /\ Len(bucket.metrics) = 2
              /\ bucket.metrics[1].avg = Fin(2, 1)
              /\ bucket.metrics[2].avg = Fin(3, 1)
              /\ bucket.min = Fin(1, 1)
              /\ bucket.max = Fin(3, 1)
              /\ bucket.avg = Fin(5, 2)

-----------------------------------------------------------------------------
(* C7 *)

\* C7: every MetricStat has min <= avg <= max, whatever values survive the
\* coercion as non-missing.
C7_MinAvgMax ==
    _metric_stats # None =>
       \A j \in 1..Len(_metric_stats[1]) :
          /\ FLe(_metric_stats[1][j].min, _metric_stats[1][j].avg)
          /\ FLe(_metric_stats[1][j].avg, _metric_stats[1][j].max)

-----------------------------------------------------------------------------
(* C8 *)

\* a <= b in code point order: at the first position where they differ a has
\* the smaller code point, or a is a prefix of b
OrdinalLeq(a, b) ==
    LET differ == {i \in 1..Len(a) : i > Len(b) \/ a[i] # b[i]}
    IN  IF differ = {} THEN TRUE
        ELSE LET i == CHOOSE k \in differ : \A j \in differ : k <= j
             IN  i <= Len(b) /\ Ord(a[i]) < Ord(b[i])

Ascending(stats) ==
    \A i \in 1..(Len(stats) - 1) : OrdinalLeq(stats[i].name, stats[i + 1].name)

\* C8: the list metric_stats() returns, and the one the cache holds, is in
\* ascending code point order of the metric names.
C8_SortedByName ==
    /\ _metric_stats # None => Ascending(_metric_stats[1])
    /\ (lastCall # None /\ lastCall[1].op = "metric_stats"
        /\ lastCall[1].exc = None) => Ascending(lastCall[1].ret[1])

\* metric_stats() has returned two stats in the order opposite to that of
\* their columns: "\G\B" sorts before "\G\a"
C8_Witness ==
    /\ lastCall # None
    /\ lastCall[1].op = "metric_stats"
    /\ lastCall[1].exc = None
    /\ _numeric_dataframe[1].columns = <<NameGa, NameGB>>
    /\ Len(lastCall[1].ret[1]) = 2
    /\ lastCall[1].ret[1][1].name = NameGB

-----------------------------------------------------------------------------
(* One engine used by several threads at once, as by the request handlers   *)
(* of app.py: a call is a sequence of steps, one per read or write of a     *)
(* slot or of a shared object.  Lists and dicts are objects of the heap,    *)
(* known by identity; a slot holds a reference.  The engine is loaded       *)
(* before the first request (app.py line 15), so the load() inside the      *)
(* numeric_dataframe property is never started here.                        *)

Callers == {"r1", "r2"}

\* the object a caller allocates in its n-th call: its list of stats or its
\* dict of buckets
Ref(t, n, kind) == [t |-> t, n |-> n, kind |-> kind]

\* a new object; shared records that the object has been stored in a slot or
\* returned to a caller
NewObject == [items |-> <<>>, shared |-> FALSE]

IdleFrame ==
    [op |-> "none", stats |-> None, numeric_df |-> None, i |-> 0,
     cats |-> None, iter |-> None, j |-> 0,
     ret |-> None, exc |-> None, cached |-> FALSE]

\* line 87 and line 137: `if self._x is not None`.  A mutant never takes the
\* cached value.
NeverCached(slot) == FALSE
IsCached(slot) == slot # None

\* lines 105-107: from the end of the loop to sort, store, return.  A mutant
\* stores the list in the slot before it sorts it.
StoreBeforeSort(at) ==
    CASE at = "ms_column" -> "ms_store"
      [] at = "ms_store" -> "ms_sort"
      [] at = "ms_sort" -> "ms_return"
MetricStatsFlow(at) ==
    CASE at = "ms_column" -> "ms_sort"
      [] at = "ms_sort" -> "ms_store"
      [] at = "ms_store" -> "ms_return"

\* the calls started so far, by the callers and by the loading thread
RECURSIVE CallsOf(_)
CallsOf(ts) ==
    IF ts = {} THEN 0
    ELSE LET t == CHOOSE x \in ts : TRUE IN calls[t] + CallsOf(ts \ {t})

CallsStarted == CallsOf(Callers) + loader.loads

EngineSteady == UNCHANGED <<fileExists, fileTable, _dataframe, _numeric_dataframe,
                            lastCall, installed, classifierVars, loader>>

\* a request handler calls metric_stats() or category_stats()
StartCall(t) ==
    /\ pc[t] = "idle"
    /\ CallsStarted < MaxCalls
    /\ calls' = [calls EXCEPT ![t] = @ + 1]
    /\ \E op \in {"metric_stats", "category_stats"} :
          /\ frame' = [frame EXCEPT ![t] = [IdleFrame EXCEPT !.op = op]]
          /\ pc' = [pc EXCEPT ![t] = IF op = "metric_stats" THEN "ms_check"
                                     ELSE "cs_check"]
    /\ UNCHANGED <<heap, _metric_stats, _category_stats>>
    /\ EngineSteady

\* the value a metric_stats() that returns v hands to caller t: to the
\* request handler, or to line 141 of the category_stats() that called it
MetricStatsReturns(t, v, cached) ==
    IF frame[t].op = "metric_stats"
    THEN /\ frame' = [frame EXCEPT ![t] = [IdleFrame EXCEPT !.op = "metric_stats",
                                                            !.ret = v,
                                                            !.cached = cached]]
         /\ pc' = [pc EXCEPT ![t] = "idle"]
    ELSE /\ frame' = [frame EXCEPT ![t].iter = v, ![t].j = 1,
                                   ![t].stats = None, ![t].numeric_df = None]
         /\ pc' = [pc EXCEPT ![t] = "cs_member"]

Share(v) == IF v = None THEN heap ELSE [heap EXCEPT ![v[1]].shared = TRUE]

\* line 87
MsCheckCache(t) ==
    /\ pc[t] = "ms_check"
    /\ pc' = [pc EXCEPT ![t] = IF IsCached(_metric_stats) THEN "ms_cached"
                               ELSE "ms_new"]
    /\ UNCHANGED <<heap, frame, calls, _metric_stats, _category_stats>>
    /\ EngineSteady

\* line 88: the slot is read again
MsReturnCached(t) ==
    /\ pc[t] = "ms_cached"
    /\ MetricStatsReturns(t, _metric_stats, TRUE)
    /\ heap' = Share(_metric_stats)
    /\ UNCHANGED <<calls, _metric_stats, _category_stats>>
    /\ EngineSteady

\* line 90
MsNewList(t) ==
    /\ pc[t] = "ms_new"
    /\ heap' = (Ref(t, calls[t], "stats") :> NewObject) @@ heap
    /\ frame' = [frame EXCEPT ![t].stats = Some(Ref(t, calls[t], "stats"))]
    /\ pc' = [pc EXCEPT ![t] = "ms_frame"]
    /\ UNCHANGED <<calls, _metric_stats, _category_stats>>
    /\ EngineSteady

\* line 91, through lines 81-84 of the property
MsReadFrame(t) ==
    /\ pc[t] = "ms_frame"
    /\ _numeric_dataframe # None
    /\ frame' = [frame EXCEPT ![t].numeric_df = _numeric_dataframe, ![t].i = 1]
    /\ pc' = [pc EXCEPT ![t] = "ms_column"]
    /\ UNCHANGED <<heap, calls, _metric_stats, _category_stats>>
    /\ EngineSteady

\* lines 92-103: one column, or the end of the loop
MsColumn(t) ==
    /\ pc[t] = "ms_column"
    /\ LET numeric_df == frame[t].numeric_df[1]
           i == frame[t].i
       IN  IF i <= Len(numeric_df.columns)
           THEN LET series == DropNa(numeric_df.series[i])
                IN  /\ heap' = IF SkipColumn(series) THEN heap
                               ELSE [heap EXCEPT ![frame[t].stats[1]].items =
                                       @ \o <<MetricStat(numeric_df.columns[i], series)>>]
                    /\ frame' = [frame EXCEPT ![t].i = i + 1]
                    /\ pc' = pc
           ELSE /\ pc' = [pc EXCEPT ![t] = MetricStatsFlow("ms_column")]
                /\ UNCHANGED <<heap, frame>>
    /\ UNCHANGED <<calls, _metric_stats, _category_stats>>
    /\ EngineSteady

\* line 105: the list is sorted in place
MsSort(t) ==
    /\ pc[t] = "ms_sort"
    /\ heap' = [heap EXCEPT ![frame[t].stats[1]].items = SortStats(@)]
    /\ pc' = [pc EXCEPT ![t] = MetricStatsFlow("ms_sort")]
    /\ UNCHANGED <<frame, calls, _metric_stats, _category_stats>>
    /\ EngineSteady

\* line 106
MsStore(t) ==
    /\ pc[t] = "ms_store"
    /\ _metric_stats' = frame[t].stats
    /\ heap' = Share(frame[t].stats)
    /\ pc' = [pc EXCEPT ![t] = MetricStatsFlow("ms_store")]
    /\ UNCHANGED <<frame, calls, _category_stats>>
    /\ EngineSteady

\* line 107
MsReturn(t) ==
    /\ pc[t] = "ms_return"
    /\ MetricStatsReturns(t, frame[t].stats, FALSE)
    /\ heap' = Share(frame[t].stats)
    /\ UNCHANGED <<calls, _metric_stats, _category_stats>>
    /\ EngineSteady

\* line 137
CsCheckCache(t) ==
    /\ pc[t] = "cs_check"
    /\ pc' = [pc EXCEPT ![t] = IF IsCached(_category_stats) THEN "cs_cached"
                               ELSE "cs_new"]
    /\ UNCHANGED <<heap, frame, calls, _metric_stats, _category_stats>>
    /\ EngineSteady

\* line 138: the slot is read again
CsReturnCached(t) ==
    /\ pc[t] = "cs_cached"
    /\ frame' = [frame EXCEPT ![t] = [IdleFrame EXCEPT !.op = "category_stats",
                                                       !.ret = _category_stats,
                                                       !.cached = TRUE]]
    /\ heap' = Share(_category_stats)
    /\ pc' = [pc EXCEPT ![t] = "idle"]
    /\ UNCHANGED <<calls, _metric_stats, _category_stats>>
    /\ EngineSteady

\* line 140, and the call of metric_stats() at line 141
CsNewDict(t) ==
    /\ pc[t] = "cs_new"
    /\ heap' = (Ref(t, calls[t], "buckets") :> NewObject) @@ heap
    /\ frame' = [frame EXCEPT ![t].cats = Some(Ref(t, calls[t], "buckets"))]
    /\ pc' = [pc EXCEPT ![t] = "ms_check"]
    /\ UNCHANGED <<calls, _metric_stats, _category_stats>>
    /\ EngineSteady

\* lines 141-152: one stat of the list metric_stats() returned, read from the
\* list as it is now, or the end of the loop.  Iterating None raises TypeError.
CsMember(t) ==
    /\ pc[t] = "cs_member"
    /\ IF frame[t].iter = None
       THEN /\ frame' = [frame EXCEPT ![t] = [IdleFrame EXCEPT !.op = "category_stats",
                                                               !.exc = Some("TypeError")]]
            /\ pc' = [pc EXCEPT ![t] = "idle"]
            /\ heap' = heap
       ELSE LET stats == heap[frame[t].iter[1]].items
                j == frame[t].j
            IN  IF j <= Len(stats)
                THEN /\ heap' = [heap EXCEPT ![frame[t].cats[1]].items =
                                   AddMember(@, category_keywords, stats[j])]
                     /\ frame' = [frame EXCEPT ![t].j = j + 1]
                     /\ pc' = pc
                ELSE /\ pc' = [pc EXCEPT ![t] = "cs_finish"]
                     /\ UNCHANGED <<heap, frame>>
    /\ UNCHANGED <<calls, _metric_stats, _category_stats>>
    /\ EngineSteady

\* lines 154-159: every bucket of the caller's own dict is sorted and summed
CsFinish(t) ==
    /\ pc[t] = "cs_finish"
    /\ heap' = [heap EXCEPT ![frame[t].cats[1]].items =
                  [b \in 1..Len(@) |-> FinishBucket(@[b])]]
    /\ pc' = [pc EXCEPT ![t] = "cs_store"]
    /\ UNCHANGED <<frame, calls, _metric_stats, _category_stats>>
    /\ EngineSteady

\* line 161
CsStore(t) ==
    /\ pc[t] = "cs_store"
    /\ _category_stats' = frame[t].cats
    /\ heap' = Share(frame[t].cats)
    /\ pc' = [pc EXCEPT ![t] = "cs_return"]
    /\ UNCHANGED <<frame, calls, _metric_stats>>
    /\ EngineSteady

\* line 162
CsReturn(t) ==
    /\ pc[t] = "cs_return"
    /\ frame' = [frame EXCEPT ![t] = [IdleFrame EXCEPT !.op = "category_stats",
                                                       !.ret = frame[t].cats]]
    /\ pc' = [pc EXCEPT ![t] = "idle"]
    /\ UNCHANGED <<heap, calls, _metric_stats, _category_stats>>
    /\ EngineSteady

Read(t) ==
    \/ StartCall(t)
    \/ MsCheckCache(t) \/ MsReturnCached(t) \/ MsNewList(t) \/ MsReadFrame(t)
    \/ MsColumn(t) \/ MsSort(t) \/ MsStore(t) \/ MsReturn(t)
    \/ CsCheckCache(t) \/ CsReturnCached(t) \/ CsNewDict(t) \/ CsMember(t)
    \/ CsFinish(t) \/ CsStore(t) \/ CsReturn(t)

\* a table of one data row under the header T, \G\a, \G\B
OneRow(a, b) ==
    [columns |-> <<NameTime, NameGa, NameGB>>, rows |-> << <<TimeCell, a, b>> >>]

\* the tables of the concurrent runs: the columns are not in sorted order
SharedTables == {OneRow("1", "3"), OneRow("3", "x")}

\* the engine after the load() of app.py line 15 has read table
Loaded(table) ==
    /\ _dataframe = Some(RenameFirst(table))
    /\ _numeric_dataframe = Some(NumericFrame(RenameFirst(table)))
    /\ _metric_stats = None
    /\ _category_stats = None
    /\ lastCall = None
    /\ installed = None
    /\ category_keywords = DEFAULT_CATEGORY_KEYWORDS
    /\ metric_name = <<>>
    /\ classified = None

CallersIdle ==
    /\ heap = <<>>
    /\ pc = [t \in Callers |-> "idle"]
    /\ frame = [t \in Callers |-> IdleFrame]
    /\ calls = [t \in Callers |-> 0]

LoaderIdle == [pc |-> "idle", df |-> None, exc |-> None, loads |-> 0]

\* requests only: nothing calls load() after the start
InitReads ==
    /\ fileExists = TRUE
    /\ fileTable \in SharedTables
    /\ Loaded(fileTable)
    /\ CallersIdle
    /\ loader = LoaderIdle

NextReads == \E t \in Callers : Read(t)

SpecReads == InitReads /\ [][NextReads]_vars

-----------------------------------------------------------------------------
(* load() run by one more thread while the requests are served *)

CallersSteady == UNCHANGED <<heap, pc, frame, calls, fileExists, fileTable,
                             lastCall, installed, classifierVars>>

LoadStart ==
    /\ loader.pc = "idle"
    /\ CallsStarted < MaxCalls
    /\ loader' = [pc |-> "l_exists", df |-> None, exc |-> None,
                  loads |-> loader.loads + 1]
    /\ UNCHANGED <<_dataframe, _numeric_dataframe, _metric_stats, _category_stats>>
    /\ CallersSteady

\* lines 56-57
LoadExists ==
    /\ loader.pc = "l_exists"
    /\ loader' = IF fileExists THEN [loader EXCEPT !.pc = "l_read"]
                 ELSE [loader EXCEPT !.pc = "idle", !.exc = Some(FileNotFoundError)]
    /\ UNCHANGED <<_dataframe, _numeric_dataframe, _metric_stats, _category_stats>>
    /\ CallersSteady

\* lines 59-64
LoadRead ==
    /\ loader.pc = "l_read"
    /\ loader' = IF fileTable.rows = <<>>
                 THEN [loader EXCEPT !.pc = "idle", !.exc = Some(ValueError)]
                 ELSE [loader EXCEPT !.pc = "l_dataframe",
                                     !.df = Some(RenameFirst(fileTable))]
    /\ UNCHANGED <<_dataframe, _numeric_dataframe, _metric_stats, _category_stats>>
    /\ CallersSteady

\* line 65
LoadSetDataframe ==
    /\ loader.pc = "l_dataframe"
    /\ _dataframe' = loader.df
    /\ loader' = [loader EXCEPT !.pc = "l_numeric"]
    /\ UNCHANGED <<_numeric_dataframe, _metric_stats, _category_stats>>
    /\ CallersSteady

\* lines 67-68
LoadSetNumeric ==
    /\ loader.pc = "l_numeric"
    /\ _numeric_dataframe' = Some(NumericFrame(loader.df[1]))
    /\ loader' = [loader EXCEPT !.pc = "l_metric"]
    /\ UNCHANGED <<_dataframe, _metric_stats, _category_stats>>
    /\ CallersSteady

\* line 69
LoadClearMetric ==
    /\ loader.pc = "l_metric"
    /\ _metric_stats' = None
    /\ loader' = [loader EXCEPT !.pc = "l_category"]
    /\ UNCHANGED <<_dataframe, _numeric_dataframe, _category_stats>>
    /\ CallersSteady

\* line 70, and the return
LoadClearCategory ==
    /\ loader.pc = "l_category"
    /\ _category_stats' = None
    /\ loader' = [loader EXCEPT !.pc = "idle", !.df = None]
    /\ UNCHANGED <<_dataframe, _numeric_dataframe, _metric_stats>>
    /\ CallersSteady

LoadStep ==
    \/ LoadStart \/ LoadExists \/ LoadRead \/ LoadSetDataframe
    \/ LoadSetNumeric \/ LoadClearMetric \/ LoadClearCategory

EmptyTable == [columns |-> <<NameTime, NameGa, NameGB>>, rows |-> <<>>]

\* the engine holds one table; the file, if there still is one, holds the
\* same, another or none
InitRace ==
    /\ \/ fileExists = FALSE /\ fileTable = None
       \/ fileExists = TRUE /\ fileTable \in SharedTables \cup {EmptyTable}
    /\ \E table \in SharedTables : Loaded(table)
    /\ CallersIdle
    /\ loader = LoaderIdle

NextRace == LoadStep \/ \E t \in Callers : Read(t)

SpecRace == InitRace /\ [][NextRace]_vars

-----------------------------------------------------------------------------
(* C9 *)

\* what one caller alone gets for the table the engine holds
SequentialStats == ComputeMetricStats(_numeric_dataframe[1])
SequentialBuckets == ComputeCategoryStats(SequentialStats, category_keywords)

SequentialValue(kind) ==
    IF kind = "stats" THEN SequentialStats ELSE SequentialBuckets

\* C9: with no load() running, every object that is in a slot or was returned
\* holds, from then on, what a sequential call returns for the table, and
\* every finished call returned such an object of its kind.
C9_ConcurrentReadsSafe ==
    /\ \A id \in DOMAIN heap :
          heap[id].shared => heap[id].items = SequentialValue(id.kind)
    /\ \A t \in Callers :
          (pc[t] = "idle" /\ frame[t].op # "none") =>
             /\ frame[t].exc = None
             /\ frame[t].ret # None
             /\ heap[frame[t].ret[1]].shared
             /\ frame[t].ret[1].kind =
                  (IF frame[t].op = "metric_stats" THEN "stats" ELSE "buckets")

\* both callers have finished, each having computed a list of its own because
\* neither found the other's in the slot
C9_Witness ==
    /\ \A t \in Callers : pc[t] = "idle" /\ frame[t].op # "none"
    /\ Cardinality({id \in DOMAIN heap : id.kind = "stats" /\ id.n = 1}) = 2
    /\ \E t \in Callers : frame[t].op = "category_stats"
    /\ Len(SequentialStats) = 2

-----------------------------------------------------------------------------
(* C10 *)

\* the slot holds a list that is not the statistics of the table held now
StaleMetricStats ==
    /\ _metric_stats # None
    /\ _numeric_dataframe # None
    /\ heap[_metric_stats[1]].items # ComputeMetricStats(_numeric_dataframe[1])

\* no caller is between line 90 and line 106 of metric_stats()
NoneComputing ==
    \A t \in Callers : pc[t] \notin {"ms_new", "ms_frame", "ms_column",
                                     "ms_sort", "ms_store"}

\* C10: a stale list in the slot stays there: while load() is not running and
\* nobody is computing, no step replaces the list, changes it, changes the
\* table or starts to compute, and every metric_stats() that returns hands
\* out that list.
C10_StaleListIsServed ==
    [][(StaleMetricStats /\ NoneComputing
        /\ loader.pc = "idle" /\ loader'.pc = "idle") =>
          /\ _metric_stats' = _metric_stats
          /\ _numeric_dataframe' = _numeric_dataframe
          /\ heap'[_metric_stats[1]].items = heap[_metric_stats[1]].items
          /\ NoneComputing'
          /\ \A t \in Callers :
                (pc[t] = "ms_cached" /\ frame[t].op = "metric_stats") =>
                   (pc'[t] = "idle" => frame'[t].ret = _metric_stats)]_vars

\* load() has returned, nobody is in a call, the slot holds the statistics of
\* the table load() replaced, and a read that found them in the slot has
\* returned them
C10_Witness ==
    /\ loader.pc = "idle" /\ loader.loads >= 1 /\ loader.exc = None
    /\ \A t \in Callers : pc[t] = "idle"
    /\ StaleMetricStats
    /\ \E t \in Callers :
          /\ frame[t].op = "metric_stats"
          /\ frame[t].cached
          /\ frame[t].ret = _metric_stats

-----------------------------------------------------------------------------
(* The classifiers as operations: one call on one name *)

\* category_keywords as the constructor may be given it (line 40): the defaults,
\* the reverse precedence, a keyword in upper case, no category at all, a
\* category without keywords and one with the empty keyword.
KeywordMappings ==
    { DEFAULT_CATEGORY_KEYWORDS,
      << [category |-> <<"N","e","t">>, keywords |-> << <<"n","e","t">> >>],
         [category |-> <<"D","i","s","k">>, keywords |-> << <<"i","o">> >>] >>,
      << [category |-> <<"U","p">>, keywords |-> << <<"I","O">> >>],
         [category |-> <<"L","o","w">>, keywords |-> << <<"o">>, <<"t","e">> >>] >>,
      <<>>,
      << [category |-> <<"E">>, keywords |-> <<>>],
         [category |-> <<"A","n","y">>, keywords |-> << <<>> >>] >> }

CpuMemoryPool == <<"C","P","U"," ","M","e","m","o","r","y"," ","P","o","o","l">>

KeywordAlphabet == {"i", "O", "n", "e", "t"}
KeywordNames == StringsUpTo(KeywordAlphabet, MaxNameLen) \cup {CpuMemoryPool}

PathAlphabet == {BackSlash, " ", "(", "i", "O"}
PathNames == StringsUpTo(PathAlphabet, MaxNameLen)

EngineUnused ==
    /\ fileExists = FALSE
    /\ fileTable = None
    /\ _dataframe = None
    /\ _numeric_dataframe = None
    /\ _metric_stats = None
    /\ _category_stats = None
    /\ lastCall = None
    /\ installed = None

InitKeyword ==
    /\ EngineUnused
    /\ ThreadsUnused
    /\ category_keywords \in KeywordMappings
    /\ metric_name \in KeywordNames
    /\ classified = None

MatchCategory ==
    /\ classified = None
    /\ classified' = Some(_match_category(category_keywords, metric_name))
    /\ UNCHANGED <<category_keywords, metric_name, engineVars, threadVars>>

SpecKeyword == InitKeyword /\ [][MatchCategory]_vars

InitPath ==
    /\ EngineUnused
    /\ ThreadsUnused
    /\ category_keywords \in KeywordMappings
    /\ metric_name \in PathNames
    /\ classified = None

SplitPerfmonPath ==
    /\ classified = None
    /\ classified' = Some(_split_perfmon_path(category_keywords, metric_name))
    /\ UNCHANGED <<category_keywords, metric_name, engineVars, threadVars>>

SpecPath == InitPath /\ [][SplitPerfmonPath]_vars

-----------------------------------------------------------------------------
(* C6 *)

\* category i of the mapping has a keyword that occurs in the lower-cased name
KeywordHit(i) ==
    \E k \in 1..Len(category_keywords[i].keywords) :
        Contains(Lower(metric_name), category_keywords[i].keywords[k])

\* C6: the keyword classifier returns the earliest category, in mapping order,
\* one of whose keywords is a substring of the lower-cased name, and "Other"
\* when there is none; with the defaults "CPU Memory Pool" is "CPU".
C6_FirstMatchWins ==
    classified # None =>
        LET hits == {i \in 1..Len(category_keywords) : KeywordHit(i)}
        IN  /\ hits = {} => classified[1] = Other
            /\ hits # {} =>
                 classified[1] =
                   category_keywords[CHOOSE i \in hits : \A j \in hits : i <= j].category
            /\ (metric_name = CpuMemoryPool
                /\ category_keywords = DEFAULT_CATEGORY_KEYWORDS)
                  => classified[1] = <<"C","P","U">>

\* "CPU Memory Pool" under the defaults: CPU (1st) and Memory (3rd) both match
C6_Witness ==
    /\ classified # None
    /\ metric_name = CpuMemoryPool
    /\ category_keywords = DEFAULT_CATEGORY_KEYWORDS
    /\ KeywordHit(1) /\ KeywordHit(3)
    /\ classified[1] = <<"C","P","U">>

-----------------------------------------------------------------------------
(* C5 *)

\* the segments of the rule: split on backslash, trim each, drop the empty ones
RuleSegments(name) ==
    LET pieces == Split(name, BackSlash)
    IN  SelectNonEmpty([i \in 1..Len(pieces) |-> Strip(pieces[i])])

RuleSplit(keywords, name) ==
    LET segs == RuleSegments(name)
        n == Len(segs)
        first == IF n >= 3 THEN segs[n - 1] ELSE IF n = 2 THEN segs[1] ELSE name
        counter == IF n >= 3 THEN segs[n] ELSE IF n = 2 THEN segs[2] ELSE name
        cut == Strip(Split(first, "(")[1])
        category == IF cut = <<>> THEN first ELSE cut
    IN  [category |-> IF category = name THEN _match_category(keywords, name)
                      ELSE category,
         counter |-> counter]

\* C5: the path classifier returns the (category, counter) of the rule, in
\* which a segment that is empty after trimming is discarded; a whitespace-only
\* segment never counts and the category is never the empty string.
C5_PathRule ==
    classified # None =>
        /\ classified[1] = RuleSplit(category_keywords, metric_name)
        /\ (metric_name # <<>> /\ \A i \in 1..Len(category_keywords) :
                                      category_keywords[i].category # <<>>)
              => classified[1].category # <<>>

====
